---- MODULE Spec2Model ----
(***************************************************************************)
(* Model of osu/asyncio/http.py: AsynchronousHTTPHandler._make_request and *)
(* RateLimitHandler.                                                       *)
(*                                                                         *)
(* Time is time.perf_counter() in whole seconds.  The event loop is single *)
(* threaded: a coroutine runs without interleaving up to its next await.   *)
(* The only await of _make_request is asyncio.sleep inside                 *)
(* RateLimitHandler.wait (line 78); the transport call of line 42 is the   *)
(* synchronous requests library, so it blocks the whole loop until the     *)
(* response (or a transport exception) arrives.                            *)
(***************************************************************************)
EXTENDS Integers, Sequences, FiniteSets, TLC

\* ---------------------------------------------------------------- bounds
NumCallers == 2
MaxInvocations == 3
MaxWaitLimit == 1
MaxLimit == 2
MaxTime == 61
Slack == 1
MaxHistory == 3

\* ------------------------------------------------------ program constants
\* the literal 60 of RateLimitHandler.wait and RateLimitHandler.reset
WindowSeconds == 60

Callers == 1..NumCallers

\* Instants at which the clock is sampled: the first Slack seconds of every
\* window-length period up to MaxTime.
TimePoints == {t \in 0..MaxTime : t % WindowSeconds <= Slack}

\* Endpoint descriptors (path objects): requires_auth and the required scope.
Paths ==
    { [requires_auth |-> FALSE, scope |-> {}],
      [requires_auth |-> TRUE,  scope |-> {"public"}],
      [requires_auth |-> TRUE,  scope |-> {"public", "identify"}] }

\* The path slot of a caller that runs no invocation.
NoPath == [requires_auth |-> FALSE, scope |-> {"none"}]

\* client.auth: absent (None) or a credential with its granted scopes.
Auths ==
    { [present |-> FALSE, scope |-> {}],
      [present |-> TRUE,  scope |-> {"identify"}],
      [present |-> TRUE,  scope |-> {"public", "identify"}] }

\* Outcomes of the transport call of line 42-44.
Outcomes == {"ok", "http_error", "transport_error"}

\* Ways in which an invocation ends.
Terminal == {"ok", "http_error", "transport_error", "auth_required",
             "scope_error", "attribute_error", "index_error", "cancelled"}

VARIABLES
    now,            \* time.perf_counter()
    wait_limit,     \* RateLimitHandler.wait_limit
    limit,          \* RateLimitHandler.limit
    last_request,   \* RateLimitHandler.last_request
    requests,       \* RateLimitHandler.requests, oldest first
    auth,           \* client.auth
    pc,             \* per caller: position of its _make_request coroutine
    path,           \* per caller: the path argument of the running invocation
    wake,           \* per caller: deadline of its asyncio.sleep
    pruned,         \* per caller: reset() popped entries in the running invocation
    calls,          \* dispatch times of the transport calls (line 42) that
                    \* are in flight or were answered, in the window that
                    \* ends at the latest of them
    nInv,           \* number of invocations started
    rapid,          \* all invocations so far: caller 1, back to back, let through
    ev,             \* the step just taken: action, caller, path argument, result
    fn              \* the latest direct call of a method: its name, arguments
                    \* and result

vars == <<now, wait_limit, limit, last_request, requests, auth, pc, path, wake,
          pruned, calls, nInv, rapid, ev, fn>>

Max(a, b) == IF a >= b THEN a ELSE b

\* ---------------------------------------------------- RateLimitHandler

\* The while-loop of reset (lines 83-87).  self.requests[0] on a list the
\* loop has emptied raises IndexError; the pops done so far persist.
\* Mutant: the staleness test of line 84 with <= for <.
RECURSIVE ResetLoop_le(_, _)
ResetLoop_le(reqs, t) ==
    IF Len(reqs) = 0
    THEN [raised |-> TRUE, requests |-> reqs]
    ELSE IF reqs[1] + WindowSeconds <= t
         THEN ResetLoop_le(Tail(reqs), t)
         ELSE [raised |-> FALSE, requests |-> reqs]

\* Mutant: an if for the while of line 83: at most one entry is popped.
ResetLoop_once(reqs, t) ==
    IF reqs[1] + WindowSeconds < t
    THEN [raised |-> FALSE, requests |-> Tail(reqs)]
    ELSE [raised |-> FALSE, requests |-> reqs]

RECURSIVE ResetLoop(_, _)
ResetLoop(reqs, t) ==
    IF Len(reqs) = 0
    THEN [raised |-> TRUE, requests |-> reqs]
    ELSE IF reqs[1] + WindowSeconds < t
         THEN ResetLoop(Tail(reqs), t)
         ELSE [raised |-> FALSE, requests |-> reqs]

\* reset (lines 80-87)
reset(reqs, t) ==
    IF Len(reqs) = 0
    THEN [raised |-> FALSE, requests |-> reqs]
    ELSE ResetLoop(reqs, t)

\* can_request (lines 89-92): the pruned history, whether reset raised, and
\* the value returned otherwise.
can_request(reqs, last, t) ==
    LET r == reset(reqs, t)
    IN  [raised   |-> r.raised,
         requests |-> r.requests,
         value    |-> /\ ~r.raised
                      /\ t - last >= wait_limit
                      /\ Len(r.requests) < limit]

\* Mutant: the window term of line 77 taken from the newest entry.
wait_newest(reqs, last, t) ==
    LET next_available_request == wait_limit - (t - last)
    IN  IF Len(reqs) >= limit
        THEN Max(next_available_request, reqs[Len(reqs)] + WindowSeconds - t)
        ELSE next_available_request

\* wait (lines 74-78): the delay handed to asyncio.sleep
wait(reqs, last, t) ==
    LET next_available_request == wait_limit - (t - last)
    IN  IF Len(reqs) >= limit
        THEN Max(next_available_request, reqs[1] + WindowSeconds - t)
        ELSE next_available_request

\* Mutant: the timestamp inserted at the front of the list.
request_used_front(reqs, t) == <<t>> \o reqs

\* request_used (lines 70-72): the new history; last_request becomes t
request_used(reqs, t) == Append(reqs, t)

\* ------------------------------------------------ AsynchronousHTTPHandler

\* Mutant: the check of line 31 left out.
AuthMissing_unchecked(p, a) == FALSE

\* line 31
AuthMissing(p, a) == p.requires_auth /\ ~a.present

\* scope_required.scopes in self.client.auth.scope (line 38): the required
\* scope is looked up, as one identifier, in the container of the granted
\* scope identifiers.  A requirement of one scope name is the identifier of
\* that name; a requirement of several names is one identifier of its own.
ScopeIn(scopes, granted) == scopes \in {{s} : s \in granted}

\* lines 37-42: what happens once the rate gate is passed
AfterGate(p, a) ==
    IF ~p.requires_auth THEN "inflight"
    ELSE IF ~a.present THEN "attribute_error"
    ELSE IF ~ScopeIn(p.scope, a.scope) THEN "scope_error"
    ELSE "inflight"

\* Mutant: request_used() called after raise_for_status().
RecordsUsage_after_raise(o) == o = "ok"

\* lines 42-44: request_used() runs once the transport call has returned a
\* response, before raise_for_status(); an exception raised by the transport
\* call itself skips it.
RecordsUsage(o) == o \in {"ok", "http_error"}

\* The transport call of some caller is blocking the event loop.
Blocked == \E c \in Callers : pc[c] = "inflight"

Active(c) == pc[c] \in {"sleeping", "inflight"}

Event(a, c, p, out) == [a |-> a, c |-> c, p |-> p, out |-> out]

\* The dispatch times of log that lie in the window ending at t, and t.
Dispatched(log, t) ==
    LET InWindow(e) == e + WindowSeconds > t
    IN  Append(SelectSeq(log, InWindow), t)

\* pc of a caller whose step led to out: an invocation that ended leaves the
\* caller free for its next invocation.
After(out) == IF out \in Terminal THEN "idle" ELSE out

\* No method has been called directly.
NoCall == [op |-> "none"]

Init ==
    /\ now = 0
    /\ wait_limit \in 1..MaxWaitLimit
    /\ limit \in 1..MaxLimit
    /\ last_request = now - wait_limit
    /\ requests = <<>>
    /\ auth \in Auths
    /\ pc = [c \in Callers |-> "idle"]
    /\ path = [c \in Callers |-> NoPath]
    /\ wake = [c \in Callers |-> 0]
    /\ pruned = [c \in Callers |-> FALSE]
    /\ calls = <<>>
    /\ nInv = 0
    /\ rapid = TRUE
    /\ ev = Event("init", 0, NoPath, "none")
    /\ fn = NoCall

\* Caller c's step ends in out: "sleeping", "inflight" (the transport call
\* of line 42 is issued now) or the way the invocation ends.
Finish(c, p, out) ==
    /\ pc' = [pc EXCEPT ![c] = After(out)]
    /\ path' = [path EXCEPT ![c] = IF out \in Terminal THEN NoPath ELSE p]
    /\ calls' = IF out = "inflight" THEN Dispatched(calls, now)
                ELSE IF out = "transport_error"
                     THEN SubSeq(calls, 1, Len(calls) - 1)
                     ELSE calls

\* _make_request from its entry (line 25) to its first suspension, to the
\* transport call or to the exception that ends it.
Invoke(c, p) ==
    /\ pc[c] = "idle"
    /\ ~Blocked
    /\ nInv < MaxInvocations
    /\ nInv' = nInv + 1
    /\ LET r0 == rapid /\ c = 1
       IN
       IF AuthMissing(p, auth)
       THEN /\ Finish(c, p, "auth_required")
            /\ ev' = Event("invoke", c, p, "auth_required")
            /\ rapid' = FALSE
            /\ pruned' = [pruned EXCEPT ![c] = FALSE]
            /\ UNCHANGED <<requests, wake>>
       ELSE LET cr == can_request(requests, last_request, now)
                out == IF cr.raised THEN "index_error"
                       ELSE IF ~cr.value THEN "sleeping"
                       ELSE AfterGate(p, auth)
            IN  /\ requests' = cr.requests
                /\ Finish(c, p, out)
                /\ ev' = Event("invoke", c, p, out)
                /\ wake' = [wake EXCEPT ![c] =
                              IF out = "sleeping"
                              THEN now + wait(cr.requests, last_request, now)
                              ELSE 0]
                /\ pruned' = [pruned EXCEPT ![c] =
                                 out \notin Terminal /\ cr.requests # requests]
                /\ rapid' = (r0 /\ out \notin {"scope_error", "attribute_error"})
    /\ UNCHANGED <<now, wait_limit, limit, last_request, auth, fn>>

\* asyncio.sleep returns (line 78, then line 35): lines 37-42 run without a
\* second look at the limiter.
Wake(c) ==
    /\ pc[c] = "sleeping"
    /\ ~Blocked
    /\ now >= wake[c]
    /\ LET out == AfterGate(path[c], auth)
       IN  /\ Finish(c, path[c], out)
           /\ ev' = Event("wake", c, path[c], out)
           /\ pruned' = [pruned EXCEPT ![c] = @ /\ out \notin Terminal]
           /\ rapid' = (rapid /\ out \notin Terminal)
    /\ wake' = [wake EXCEPT ![c] = 0]
    /\ UNCHANGED <<now, wait_limit, limit, last_request, requests, auth, nInv,
                   fn>>

\* The task is cancelled while suspended in asyncio.sleep: CancelledError
\* propagates out of wait (line 78) and _make_request (line 35).
Cancel(c) ==
    /\ pc[c] = "sleeping"
    /\ ~Blocked
    /\ Finish(c, path[c], "cancelled")
    /\ ev' = Event("cancel", c, path[c], "cancelled")
    /\ wake' = [wake EXCEPT ![c] = 0]
    /\ rapid' = FALSE
    /\ UNCHANGED <<now, wait_limit, limit, last_request, requests, auth,
                   pruned, nInv, fn>>

\* The transport call of line 42 returns a response or raises; lines 43-45.
Respond(c, o) ==
    /\ pc[c] = "inflight"
    /\ Finish(c, path[c], o)
    /\ ev' = Event("respond", c, path[c], o)
    /\ pruned' = [pruned EXCEPT ![c] = FALSE]
    /\ IF RecordsUsage(o)
       THEN /\ requests' = request_used(requests, now)
            /\ last_request' = now
       ELSE UNCHANGED <<requests, last_request>>
    /\ UNCHANGED <<now, wait_limit, limit, auth, wake, nInv, rapid, fn>>

\* time.perf_counter() advances (for as long as an invocation is running or
\* can still be started).
Tick ==
    /\ nInv < MaxInvocations \/ \E c \in Callers : Active(c)
    /\ \E t \in TimePoints : t > now /\ now' = t
    /\ ev' = Event("tick", 0, NoPath, "none")
    /\ rapid' = (rapid /\ (nInv = 0 \/ \E c \in Callers : Active(c)))
    /\ UNCHANGED <<wait_limit, limit, last_request, requests, auth, pc, path,
                   wake, pruned, calls, nInv, fn>>

Next ==
    \/ \E c \in Callers, p \in Paths : Invoke(c, p)
    \/ \E c \in Callers : Wake(c)
    \/ \E c \in Callers : Cancel(c)
    \/ \E c \in Callers, o \in Outcomes : Respond(c, o)
    \/ Tick

Spec == Init /\ [][Next]_vars

\* ------------------------------------------- RateLimitHandler used directly

\* The methods of one RateLimitHandler called directly, in any order, under
\* the advancing clock.

\* request_used()
LRequestUsed ==
    /\ Len(requests) < MaxHistory
    /\ requests' = request_used(requests, now)
    /\ last_request' = now
    /\ fn' = [op |-> "request_used", at |-> now, before |-> requests]
    /\ UNCHANGED <<now, wait_limit, limit, auth, pc, path, wake, pruned, calls,
                   nInv, rapid, ev>>

\* reset()
LReset ==
    /\ LET r == reset(requests, now)
       IN  /\ requests' = r.requests
           /\ fn' = [op |-> "reset", at |-> now, before |-> requests,
                     raised |-> r.raised]
    /\ UNCHANGED <<now, wait_limit, limit, last_request, auth, pc, path, wake,
                   pruned, calls, nInv, rapid, ev>>

\* the can_request property read
LCanRequest ==
    /\ LET r == can_request(requests, last_request, now)
       IN  /\ requests' = r.requests
           /\ fn' = [op |-> "can_request", at |-> now, before |-> requests,
                     raised |-> r.raised, value |-> r.value]
    /\ UNCHANGED <<now, wait_limit, limit, last_request, auth, pc, path, wake,
                   pruned, calls, nInv, rapid, ev>>

\* wait(): the delay it computes and hands to asyncio.sleep, which accepts
\* any number (a delay <= 0 yields once and returns).
LWait ==
    /\ fn' = [op |-> "wait", at |-> now, before |-> requests,
              result |-> wait(requests, last_request, now)]
    /\ UNCHANGED <<now, wait_limit, limit, last_request, requests, auth, pc,
                   path, wake, pruned, calls, nInv, rapid, ev>>

NextLimiter ==
    \/ LRequestUsed
    \/ LReset
    \/ LCanRequest
    \/ LWait
    \/ Tick

InitLimiter ==
    /\ Init
    /\ ~auth.present

SpecLimiter == InitLimiter /\ [][NextLimiter]_vars

\* ------------------------------------------------------------ get_headers

\* Header names a caller may pass as keyword arguments.
HeaderKeys == {"Content-Type", "Accept", "Authorization", "X-Api-Version"}

\* Values a caller may pass: None, or an object with its str() rendering.
None == [kind |-> "None", text |-> "None"]
HeaderValues ==
    { None,
      [kind |-> "str", text |-> "text/xml"],
      [kind |-> "int", text |-> "20220705"] }

\* self.auth.token
Tokens == {"tokA", "tokB"}

\* str(value), line 19
Str(value) == value.text

\* The base headers of lines 17-18.
BaseHeaders ==
    [k \in {"Content-Type", "Accept"} |-> "application/json"]

\* Mutant: the Authorization header set first, the caller's headers merged
\* over it.
get_headers_auth_first(requires_auth, kwargs, token) ==
    LET keys == {k \in DOMAIN kwargs : kwargs[k] # None}
        given == [k \in keys |-> Str(kwargs[k])]
        base == IF requires_auth
                THEN [k \in DOMAIN BaseHeaders \cup {"Authorization"} |->
                         IF k = "Authorization" THEN "Bearer " \o token
                         ELSE BaseHeaders[k]]
                ELSE BaseHeaders
    IN  [k \in DOMAIN base \cup keys |->
            IF k \in keys THEN given[k] ELSE base[k]]

\* get_headers (lines 15-23): the dict literal lets the non-None keyword
\* arguments override the base headers; Authorization is assigned last.
get_headers(requires_auth, kwargs, token) ==
    LET keys == {k \in DOMAIN kwargs : kwargs[k] # None}
        given == [k \in keys |-> Str(kwargs[k])]
        headers == [k \in DOMAIN BaseHeaders \cup keys |->
                       IF k \in keys THEN given[k] ELSE BaseHeaders[k]]
    IN  IF requires_auth
        THEN [k \in DOMAIN headers \cup {"Authorization"} |->
                 IF k = "Authorization" THEN "Bearer " \o token
                 ELSE headers[k]]
        ELSE headers

\* A direct call of get_headers.
GetHeaders(requires_auth, kwargs, token) ==
    /\ fn' = [op |-> "get_headers", requires_auth |-> requires_auth,
              kwargs |-> kwargs, token |-> token,
              result |-> get_headers(requires_auth, kwargs, token)]
    /\ UNCHANGED <<now, wait_limit, limit, last_request, requests, auth, pc,
                   path, wake, pruned, calls, nInv, rapid, ev>>

NextHeaders ==
    \E requires_auth \in BOOLEAN, keys \in SUBSET HeaderKeys, token \in Tokens :
        \E kwargs \in [keys -> HeaderValues] :
            GetHeaders(requires_auth, kwargs, token)

\* get_headers reads nothing of the limiter: one configuration is enough.
InitHeaders ==
    /\ Init
    /\ wait_limit = 1
    /\ limit = 1
    /\ auth.present
    /\ auth.scope = {"identify"}

SpecHeaders == InitHeaders /\ [][NextHeaders]_vars

\* ------------------------------------------------------------------ claims

\* The invocation whose step was just taken passes the auth and scope
\* preconditions (credential present where required, required scope a subset
\* of the granted scopes).
Passes(p) ==
    p.requires_auth => (auth.present /\ p.scope \subseteq auth.scope)

\* C1: with concurrent invocations on one dispatcher, the number of transport
\* calls issued within any trailing WindowSeconds interval never exceeds limit
\* (calls holds the calls of the window that ends at the latest call; a call
\* on which the transport raised is not even counted).
C1_WindowBound == Len(calls) <= limit

\* C2: any two transport calls are issued at least wait_limit apart, also when
\* a caller was suspended in wait() while another caller sent a request.
C2_MinInterval ==
    \A i \in 1..(Len(calls) - 1) : calls[i + 1] - calls[i] >= wait_limit

\* C3: can_request evaluated at any time after any sequence of request_used
\* calls returns a boolean (it does not raise), and the boolean is true iff
\* now - last_request >= wait_limit and fewer than limit entries remain after
\* pruning.
C3_IsReadyTotal ==
    (ev.a = "invoke" /\ ev.out # "auth_required") =>
        /\ ev.out # "index_error"
        /\ (ev.out # "sleeping") <=>
               (now - last_request >= wait_limit /\ Len(requests) < limit)

\* C4: an invocation on a path with requires_auth and no credential fails
\* with the authentication error, issues no transport call and leaves the
\* limiter (requests, last_request) exactly as it was: no prune, no append,
\* no last_request update; the caller is never suspended.
C4_NoCredential ==
    [][ (ev'.a = "invoke" /\ ev'.p.requires_auth /\ ~auth.present) =>
            /\ ev'.out = "auth_required"
            /\ requests' = requests
            /\ last_request' = last_request
            /\ calls' = calls
            /\ pc' = pc
            /\ wake' = wake ]_vars

\* C4 witness: the authentication error is raised while the history holds an
\* entry older than the window, which a readiness check would have pruned.
C4_Witness ==
    /\ ev.a = "invoke"
    /\ ev.out = "auth_required"
    /\ Len(requests) > 0
    /\ requests[1] + WindowSeconds < now

\* C5: an invocation on a path with requires_auth and a credential present
\* fails with the scope error, with no transport call, if and only if the
\* required scope is not a subset of the granted scopes.
C5_ScopeIff ==
    [][ (/\ ev'.a \in {"invoke", "wake", "cancel"}
         /\ ev'.p.requires_auth
         /\ auth.present
         /\ ev'.out # "sleeping") =>
            /\ (ev'.out = "scope_error") <=> ~(ev'.p.scope \subseteq auth.scope)
            /\ (ev'.out = "scope_error") => calls' = calls ]_vars

\* C6: an invocation whose transport call returns a response with an HTTP
\* error status performs exactly one request_used (one append of the current
\* time, one last_request update) in the step that surfaces the error.
C6_HttpErrorRecorded ==
    [][ (ev'.a = "respond" /\ ev'.out = "http_error") =>
            /\ requests' = Append(requests, now)
            /\ last_request' = now ]_vars

\* C6 witness: an HTTP error response has just been received and recorded.
C6_Witness ==
    /\ ev.a = "respond"
    /\ ev.out = "http_error"
    /\ Len(requests) > 0
    /\ requests[Len(requests)] = now

\* C7: every invocation that issued the transport call performs exactly one
\* request_used, whatever the outcome of the call (response, HTTP error
\* status or an exception raised by the transport).
C7_EveryCallRecorded ==
    [][ (ev'.a = "respond") =>
            /\ requests' = Append(requests, now)
            /\ last_request' = now ]_vars

\* C8: the rate gate (readiness check, pruning, wait computation) never makes
\* an invocation that passes the auth and scope preconditions fail, in any
\* reachable limiter state.
C8_GateNeverFails ==
    (ev.a = "invoke" /\ Passes(ev.p)) => ev.out # "index_error"

\* C9: a single caller issuing its invocations back to back on an allowed
\* endpoint: every invocation issues its transport call (N invocations, N
\* calls), each call is dispatched no earlier than wait_limit after the
\* previous usage record, and a call made while the history holds limit
\* entries is not dispatched before oldest entry + WindowSeconds.
C9_BackToBack ==
    [][ rapid' =>
            /\ (ev'.out \in Terminal) => (ev'.out \in Outcomes)
            /\ (ev'.out = "inflight") =>
                   /\ now >= last_request + wait_limit
                   /\ (Len(requests') >= limit) =>
                          now >= requests'[1] + WindowSeconds ]_vars

\* C10 (as stated): an invocation cancelled while suspended in wait() has not
\* changed the limiter: its readiness check removed nothing from the history.
C10_NoMutationOnCancel ==
    (ev.a = "cancel") => ~pruned[ev.c]

\* C10 (amended): an invocation cancelled while suspended in wait() issues no
\* transport call and performs no request_used; the step that suspended it
\* left last_request alone and changed the history only by removing a prefix
\* of entries older than WindowSeconds, and the cancellation itself changes
\* nothing of the limiter and ends the invocation.
C10_CancelOnlyPrunes ==
    [][ /\ (ev'.a = "invoke" /\ ev'.out = "sleeping") =>
               /\ last_request' = last_request
               /\ calls' = calls
               /\ \E k \in 0..Len(requests) :
                      /\ requests' = SubSeq(requests, k + 1, Len(requests))
                      /\ \A i \in 1..k : requests[i] + WindowSeconds < now
        /\ (ev'.a = "cancel") =>
               /\ requests' = requests
               /\ last_request' = last_request
               /\ calls' = calls
               /\ pc'[ev'.c] = "idle" ]_vars

\* C10 witness: an invocation whose readiness check pruned the history has
\* just been cancelled in its wait.
C10_Witness ==
    /\ ev.a = "cancel"
    /\ pruned[ev.c]

\* C11: for every set of caller-supplied extra headers, with requires_auth the
\* final Authorization header is "Bearer <token>" even if the caller supplied
\* an Authorization value of its own; a caller's non-None value overrides the
\* base Content-Type / Accept header and a None value leaves the base value.
C11_HeaderMerge ==
    (fn.op = "get_headers") =>
        /\ fn.requires_auth =>
               /\ "Authorization" \in DOMAIN fn.result
               /\ fn.result["Authorization"] = "Bearer " \o fn.token
        /\ \A k \in {"Content-Type", "Accept"} :
               /\ k \in DOMAIN fn.result
               /\ fn.result[k] =
                      IF k \in DOMAIN fn.kwargs /\ fn.kwargs[k].kind # "None"
                      THEN fn.kwargs[k].text
                      ELSE "application/json"

\* C11 witness: the caller passed its own Authorization and Content-Type and
\* None for Accept, on a path that requires auth.
C11_Witness ==
    /\ fn.op = "get_headers"
    /\ fn.requires_auth
    /\ {"Authorization", "Content-Type", "Accept"} \subseteq DOMAIN fn.kwargs
    /\ fn.kwargs["Authorization"].kind = "str"
    /\ fn.kwargs["Content-Type"].kind = "str"
    /\ fn.kwargs["Accept"].kind = "None"
    /\ fn.result["Authorization"] = "Bearer " \o fn.token

\* C12: wait() computes wait_limit - (now - last_request) when the history is
\* empty or holds fewer than limit entries, and the larger of that and
\* oldest entry + WindowSeconds - now when it holds at least limit entries;
\* the result may be zero or negative.
C12_WaitValue ==
    (fn.op = "wait") =>
        LET a == wait_limit - (fn.at - last_request)
            b == requests[1] + WindowSeconds - fn.at
        IN  /\ requests = fn.before
            /\ fn.result = IF Len(requests) < limit THEN a
                           ELSE IF a >= b THEN a ELSE b

\* C12 witness: wait() called on a full history whose oldest entry left the
\* window: the result is negative.
C12_Witness ==
    /\ fn.op = "wait"
    /\ Len(requests) >= limit
    /\ fn.result < 0

\* The history h without its longest prefix of entries e with
\* e + WindowSeconds < t.
RECURSIVE DropStalePrefix(_, _)
DropStalePrefix(h, t) ==
    IF h = <<>> THEN h
    ELSE IF h[1] + WindowSeconds < t THEN DropStalePrefix(Tail(h), t)
    ELSE h

\* C13: the pruning pass ends without error on every ascending history and
\* every time, and leaves the history without its longest prefix of entries
\* with entry + WindowSeconds < now (the empty history when all are stale).
C13_PruneTotal ==
    (fn.op = "reset") =>
        /\ ~fn.raised
        /\ requests = DropStalePrefix(fn.before, fn.at)

\* C14: the auth and scope preconditions are evaluated before the rate gate:
\* an invocation whose credential lacks the required scope is never
\* suspended in wait(), also when the limiter is not ready.
C14_ScopeBeforeGate ==
    \A c \in Callers : pc[c] = "sleeping" => Passes(path[c])

\* C15: an invocation that fails on the missing credential or on the missing
\* scope leaves the limiter as it was before the invocation: requests and
\* last_request are unchanged, nothing was pruned and nothing appended.
C15_FailureLeavesLimiter ==
    [][ (/\ ev'.a \in {"invoke", "wake"}
         /\ ev'.out \in {"auth_required", "scope_error"}
         /\ ~(ev'.p.scope \subseteq auth.scope)) =>
            /\ requests' = requests
            /\ last_request' = last_request
            /\ (ev'.a = "wake" => ~pruned[ev'.c]) ]_vars

\* C16: the transport call is a suspension point that does not block: while
\* the transport call of one invocation is outstanding, another caller can
\* start an invocation and a suspended caller whose delay has elapsed can
\* wake up.
C16_CallDoesNotBlock ==
    \A c, d \in Callers :
        pc[c] = "inflight" =>
            /\ (pc[d] = "idle" /\ nInv < MaxInvocations) =>
                   ENABLED (\E p \in Paths : Invoke(d, p))
            /\ (pc[d] = "sleeping" /\ now >= wake[d]) => ENABLED Wake(d)

\* C17 (as stated): right after a pruning pass, and so at the read of the
\* history by can_request, no entry has an age now - entry >= WindowSeconds,
\* an entry of age exactly WindowSeconds included.
C17_NoEntryAtOrPastWindow ==
    (fn.op \in {"reset", "can_request"}) =>
        \A i \in 1..Len(requests) : fn.at - requests[i] < WindowSeconds

\* C17 (amended): right after a pruning pass, and so at the read of the
\* history by can_request, the history holds exactly the entries of the
\* history before the pass whose age is at most WindowSeconds, in their
\* order: no entry older than WindowSeconds remains and an entry of age
\* exactly WindowSeconds is kept.
C17_NoEntryPastWindow ==
    (fn.op \in {"reset", "can_request"}) =>
        LET AtMostWindow(e) == fn.at - e <= WindowSeconds
        IN  requests = SelectSeq(fn.before, AtMostWindow)

\* C17 witness: a pass that removed an entry and kept one of age exactly
\* WindowSeconds.
C17_Witness ==
    /\ fn.op = "reset"
    /\ ~fn.raised
    /\ Len(requests) < Len(fn.before)
    /\ \E i \in 1..Len(requests) : fn.at - requests[i] = WindowSeconds

\* C18: two can_request reads in succession at the same time, with no
\* request_used() in between, give the same result, and the second leaves
\* the history as the first left it.
C18_Idempotent ==
    [][ (/\ fn.op = "can_request"
         /\ fn'.op = "can_request"
         /\ fn.at = now
         /\ now' = now) =>
            /\ fn'.raised = fn.raised
            /\ fn'.value = fn.value
            /\ requests' = requests ]_vars

\* requests is in ascending order, oldest first.
Ascending(h) == \A i, j \in 1..Len(h) : i < j => h[i] <= h[j]

\* C19: under the non-decreasing clock, whatever the sequence of
\* can_request, wait, reset and request_used calls, last_request never
\* decreases, requests is in ascending order, and last_request is at least
\* the newest entry of a non-empty history.
C19_Monotone ==
    [][ /\ last_request' >= last_request
        /\ Ascending(requests')
        /\ Len(requests') > 0 => last_request' >= requests'[Len(requests')]
      ]_vars

\* C19 witness: request_used() has appended to a history holding an older
\* entry, and last_request is the newest entry.
C19_Witness ==
    /\ fn.op = "request_used"
    /\ Len(requests) >= 2
    /\ requests[1] < requests[Len(requests)]
    /\ last_request = requests[Len(requests)]

====
